---- MODULE Spec2Model ----
(***************************************************************************)
(* Footprint-mediated ledger storage of the Soroban host                   *)
(* (soroban-env-host/src/storage.rs): Footprint, Storage in its Recording  *)
(* and Enforcing modes, the snapshot source a recording Storage reads      *)
(* through to, and TempStorage.  Every map operation is charged to a       *)
(* Budget.                                                                 *)
(*                                                                         *)
(* A function of the source that returns early with `?` is written as a    *)
(* chain of operators: each one takes the outcome of the fallible call     *)
(* before it and either returns the failure or goes on to the next call.   *)
(***************************************************************************)
EXTENDS Integers, Sequences, FiniteSets, TLC

\* ------------------------------------------------------------------ bounds
NEntries == 2
MaxBudget == 5
NVals == 2

\* the ledger keys a transaction names, A and B
Keys == {"A", "B"}
Entries == 1..NEntries

\* ------------------------------------------------------------- data model
\* AccessType
ReadOnly == "ReadOnly"
ReadWrite == "ReadWrite"
AccessType == {ReadOnly, ReadWrite}

\* Option<Rc<LedgerEntry>>: the tombstone None, or Some(e) for e in Entries
None == 0
OptEntries == {None} \cup Entries

\* results of a call: Ok or the error it returns
Ok == "Ok"
AccessToUnknownEntry == "AccessToUnknownEntry"
ReadwriteAccessToReadonlyEntry == "ReadwriteAccessToReadonlyEntry"
MissingKeyInGet == "MissingKeyInGet"
GetOnDeletedKey == "GetOnDeletedKey"
BudgetExceeded == "BudgetExceeded"
SourceError == "SourceError"

\* all maps from a subset of the keys to values of V
PartialMaps(V) == UNION {[D -> V] : D \in SUBSET Keys}
EmptyMap == [k \in {} |-> None]

\* a Budget: unlimited (Budget::reset_unlimited), or a number of charges left
Budgets ==
  {[unlimited |-> TRUE, left |-> 0]}
    \cup {[unlimited |-> FALSE, left |-> n] : n \in 0..MaxBudget}

\* ------------------------------------------------------- metered ordered map
\* one charge of a map operation; exhaustion fails and leaves nothing to spend
Charge(b) ==
  IF b.unlimited THEN [ok |-> TRUE, budget |-> b]
  ELSE IF b.left >= 1 THEN [ok |-> TRUE, budget |-> [b EXCEPT !.left = @ - 1]]
  ELSE [ok |-> FALSE, budget |-> b]

\* a lookup once charged (c): found only if the charge went through
Looked(m, key, c) ==
  [ok |-> c.ok, budget |-> c.budget, found |-> c.ok /\ key \in DOMAIN m]

\* MeteredOrdMap::get: charged lookup
MapGet(m, key, b) == Looked(m, key, Charge(b))

\* MeteredOrdMap::contains_key: charged containment check
MapContainsKey(m, key, b) == Looked(m, key, Charge(b))

\* an insert once charged (c): a new map, or the old one if the charge failed
Inserted(m, key, v, c) ==
  [ok |-> c.ok, budget |-> c.budget,
   map |-> IF c.ok
           THEN [k \in DOMAIN m \cup {key} |-> IF k = key THEN v ELSE m[k]]
           ELSE m]

\* MeteredOrdMap::insert: charged; returns a new map, the old one is untouched
MapInsert(m, key, v, b) == Inserted(m, key, v, Charge(b))

\* a remove once charged (c): Some((new map, value)) when the key was there,
\* None when it was not or the charge failed
Removed(m, key, c) ==
  [ok |-> c.ok, budget |-> c.budget,
   some |-> c.ok /\ key \in DOMAIN m,
   map |-> IF c.ok THEN [k \in DOMAIN m \ {key} |-> m[k]] ELSE m]

\* MeteredOrdMap::remove: charged; returns a new map, the old one is untouched
MapRemove(m, key, b) == Removed(m, key, Charge(b))

\* ------------------------------------------------------------ snapshot source
\* MockSnapshotSource::get: the entry, or an error when the key is not there
SnapshotGet(snap, key) ==
  IF key \in DOMAIN snap THEN [ok |-> TRUE, val |-> snap[key]]
  ELSE [ok |-> FALSE, val |-> None]

\* MockSnapshotSource::has
SnapshotHas(snap, key) == key \in DOMAIN snap

\* ------------------------------------------------------------------ Footprint
\* the match of record_access: does (existing, requested) insert the requested
\* level?
RecordUpgrades_Downgrade(existing, ty) == existing # ty

RecordUpgrades_NoUpgrade(existing, ty) == FALSE

RecordUpgrades(existing, ty) ==
  CASE existing = ReadOnly /\ ty = ReadOnly -> FALSE
    [] existing = ReadOnly /\ ty = ReadWrite -> TRUE
    [] existing = ReadWrite /\ ty = ReadOnly -> FALSE
    [] existing = ReadWrite /\ ty = ReadWrite -> FALSE

\* record_access after its insert (i): self.0 is assigned only if it went through
RecordInserted(i) ==
  [footprint |-> i.map, budget |-> i.budget,
   res |-> IF i.ok THEN Ok ELSE BudgetExceeded]

\* a record_access that would apply its insert before the charge is known to
\* have gone through
RecordLooked_AppliesUnpaid(fp, key, ty, g) ==
  IF ~g.ok THEN [footprint |-> fp, budget |-> g.budget, res |-> BudgetExceeded]
  ELSE IF g.found /\ ~RecordUpgrades(fp[key], ty)
  THEN [footprint |-> fp, budget |-> g.budget, res |-> Ok]
  ELSE [footprint |-> [k \in DOMAIN fp \cup {key} |->
                         IF k = key THEN ty ELSE fp[k]],
        budget |-> Charge(g.budget).budget,
        res |-> IF Charge(g.budget).ok THEN Ok ELSE BudgetExceeded]

\* record_access after its lookup (g)
RecordLooked(fp, key, ty, g) ==
  IF ~g.ok THEN [footprint |-> fp, budget |-> g.budget, res |-> BudgetExceeded]
  ELSE IF g.found /\ ~RecordUpgrades(fp[key], ty)
  THEN [footprint |-> fp, budget |-> g.budget, res |-> Ok]
  ELSE RecordInserted(MapInsert(fp, key, ty, g.budget))

\* Footprint::record_access
RecordAccess(fp, key, ty, b) == RecordLooked(fp, key, ty, MapGet(fp, key, b))

\* the match of enforce_access on a declared key
EnforceMatch_AllowWrite(existing, ty) == Ok

EnforceMatch_Strict(existing, ty) ==
  IF existing = ty THEN Ok ELSE ReadwriteAccessToReadonlyEntry

EnforceMatch(existing, ty) ==
  CASE existing = ReadOnly /\ ty = ReadOnly -> Ok
    [] existing = ReadOnly /\ ty = ReadWrite -> ReadwriteAccessToReadonlyEntry
    [] existing = ReadWrite /\ ty = ReadOnly -> Ok
    [] existing = ReadWrite /\ ty = ReadWrite -> Ok

\* the else branch of enforce_access: the key is not in the footprint
EnforceUnknown_Allow == Ok

EnforceUnknown == AccessToUnknownEntry

\* enforce_access after its lookup (g); the footprint is never assigned
EnforceLooked(fp, key, ty, g) ==
  [footprint |-> fp, budget |-> g.budget,
   res |-> IF ~g.ok THEN BudgetExceeded
           ELSE IF g.found THEN EnforceMatch(fp[key], ty)
           ELSE EnforceUnknown]

\* Footprint::enforce_access
EnforceAccess(fp, key, ty, b) == EnforceLooked(fp, key, ty, MapGet(fp, key, b))

\* -------------------------------------------------------------------- Storage
\* FootprintMode
Recording == "Recording"
Enforcing == "Enforcing"

\* get / has request ReadOnly access
ReadAccess_ReadWrite == ReadWrite

ReadAccess == ReadOnly

\* put_opt requests ReadWrite access
WriteAccess_ReadOnly == ReadOnly

WriteAccess == ReadWrite

\* the access step that opens every Storage call: record_access in Recording
\* mode, enforce_access in Enforcing mode
Access(md, fp, key, ty, b) ==
  IF md = Recording THEN RecordAccess(fp, key, ty, b)
  ELSE EnforceAccess(fp, key, ty, b)

\* Storage::get, Recording arm: a key the map does not contain is read through
NeedsLoad_Always(found) == TRUE

NeedsLoad_Never(found) == FALSE

NeedsLoad(found) == ~found

\* Storage::get, the closing match on the map
GetResolve_NoTombstone(m, key) ==
  IF key \notin DOMAIN m \/ m[key] = None
  THEN [res |-> MissingKeyInGet, ret |-> None]
  ELSE [res |-> Ok, ret |-> m[key]]

GetResolve_MissingAsDeleted(m, key) ==
  IF key \notin DOMAIN m \/ m[key] = None
  THEN [res |-> GetOnDeletedKey, ret |-> None]
  ELSE [res |-> Ok, ret |-> m[key]]

GetResolve(m, key) ==
  IF key \notin DOMAIN m THEN [res |-> MissingKeyInGet, ret |-> None]
  ELSE IF m[key] = None THEN [res |-> GetOnDeletedKey, ret |-> None]
  ELSE [res |-> Ok, ret |-> m[key]]

\* what a get call leaves and returns; srcGet: it called SnapshotSource::get
GetResult(fp, m, b, res, ret, srcGet) ==
  [footprint |-> fp, map |-> m, budget |-> b, res |-> res, ret |-> ret,
   srcGet |-> srcGet]

\* get after the lookup (g) of its closing match
GetMatched(fp, m, key, srcGet, g) ==
  IF ~g.ok THEN GetResult(fp, m, g.budget, BudgetExceeded, None, srcGet)
  ELSE GetResult(fp, m, g.budget, GetResolve(m, key).res,
                 GetResolve(m, key).ret, srcGet)

\* get, Recording arm, after the insert (i) of the entry read from the source
GetCached(fp, key, i) ==
  IF ~i.ok THEN GetResult(fp, i.map, i.budget, BudgetExceeded, None, TRUE)
  ELSE GetMatched(fp, i.map, key, TRUE, MapGet(i.map, key, i.budget))

\* a get that would cache the tombstone for a key the source failed on
GetSourced_CachesFailure(fp, m, key, b, s) ==
  IF ~s.ok
  THEN GetResult(fp, [k \in DOMAIN m \cup {key} |->
                        IF k = key THEN None ELSE m[k]],
                 b, SourceError, None, TRUE)
  ELSE GetCached(fp, key, MapInsert(m, key, s.val, b))

\* get, Recording arm, after src.get (s), which runs before the insert
GetSourced(fp, m, key, b, s) ==
  IF ~s.ok THEN GetResult(fp, m, b, SourceError, None, TRUE)
  ELSE GetCached(fp, key, MapInsert(m, key, s.val, b))

\* get, Recording arm, after contains_key (c)
GetChecked(snap, fp, m, key, c) ==
  IF ~c.ok THEN GetResult(fp, m, c.budget, BudgetExceeded, None, FALSE)
  ELSE IF NeedsLoad(c.found)
  THEN GetSourced(fp, m, key, c.budget, SnapshotGet(snap, key))
  ELSE GetMatched(fp, m, key, FALSE, MapGet(m, key, c.budget))

\* get after its access step (a)
GetAccessed(md, snap, m, key, a) ==
  IF a.res # Ok THEN GetResult(a.footprint, m, a.budget, a.res, None, FALSE)
  ELSE IF md = Recording
  THEN GetChecked(snap, a.footprint, m, key, MapContainsKey(m, key, a.budget))
  ELSE GetMatched(a.footprint, m, key, FALSE, MapGet(m, key, a.budget))

\* Storage::get
StorageGet(md, snap, fp, m, b, key) ==
  GetAccessed(md, snap, m, key, Access(md, fp, key, ReadAccess, b))

\* put_opt after its insert (i): self.map is assigned only if it went through
PutInserted(fp, i) ==
  [footprint |-> fp, map |-> i.map, budget |-> i.budget,
   res |-> IF i.ok THEN Ok ELSE BudgetExceeded]

\* a put_opt that would keep the entry the map already holds
PutAccessed_KeepsLoaded(m, key, val, a) ==
  IF a.res # Ok \/ key \in DOMAIN m
  THEN [footprint |-> a.footprint, map |-> m, budget |-> a.budget, res |-> a.res]
  ELSE PutInserted(a.footprint, MapInsert(m, key, val, a.budget))

\* a put_opt that would write the map before the access step has passed
PutAccessed_WritesFirst(m, key, val, a) ==
  IF a.res # Ok
  THEN [footprint |-> a.footprint,
        map |-> [k \in DOMAIN m \cup {key} |-> IF k = key THEN val ELSE m[k]],
        budget |-> a.budget, res |-> a.res]
  ELSE PutInserted(a.footprint, MapInsert(m, key, val, a.budget))

\* put_opt after its access step (a)
PutAccessed(m, key, val, a) ==
  IF a.res # Ok
  THEN [footprint |-> a.footprint, map |-> m, budget |-> a.budget, res |-> a.res]
  ELSE PutInserted(a.footprint, MapInsert(m, key, val, a.budget))

\* Storage::put_opt, val in OptEntries: Some(entry) from put, None from del
PutOpt(md, fp, m, b, key, val) ==
  PutAccessed(m, key, val, Access(md, fp, key, WriteAccess, b))

\* Storage::has, the match on the map: the answer, and whether
\* SnapshotSource::has is called for it (Recording mode, key not in the map)
HasResolve_TombstoneIsThere(md, snap, m, key) ==
  IF key \in DOMAIN m THEN [found |-> TRUE, srcHas |-> FALSE]
  ELSE IF md = Recording
  THEN [found |-> SnapshotHas(snap, key), srcHas |-> TRUE]
  ELSE [found |-> FALSE, srcHas |-> FALSE]

HasResolve_MissIsThere(md, snap, m, key) ==
  IF key \in DOMAIN m /\ m[key] = None THEN [found |-> FALSE, srcHas |-> FALSE]
  ELSE IF key \in DOMAIN m THEN [found |-> TRUE, srcHas |-> FALSE]
  ELSE IF md = Recording
  THEN [found |-> SnapshotHas(snap, key), srcHas |-> TRUE]
  ELSE [found |-> TRUE, srcHas |-> FALSE]

HasResolve(md, snap, m, key) ==
  IF key \in DOMAIN m /\ m[key] = None THEN [found |-> FALSE, srcHas |-> FALSE]
  ELSE IF key \in DOMAIN m THEN [found |-> TRUE, srcHas |-> FALSE]
  ELSE IF md = Recording
  THEN [found |-> SnapshotHas(snap, key), srcHas |-> TRUE]
  ELSE [found |-> FALSE, srcHas |-> FALSE]

\* what a has call leaves and returns; srcHas: it called SnapshotSource::has
HasResult(fp, b, res, found, srcHas) ==
  [footprint |-> fp, budget |-> b, res |-> res, found |-> found,
   srcHas |-> srcHas]

\* has after the lookup (g) of its match
HasMatched(md, snap, fp, m, key, g) ==
  IF ~g.ok THEN HasResult(fp, g.budget, BudgetExceeded, FALSE, FALSE)
  ELSE HasResult(fp, g.budget, Ok, HasResolve(md, snap, m, key).found,
                 HasResolve(md, snap, m, key).srcHas)

\* has after its access step (a)
HasAccessed(md, snap, m, key, a) ==
  IF a.res # Ok THEN HasResult(a.footprint, a.budget, a.res, FALSE, FALSE)
  ELSE HasMatched(md, snap, a.footprint, m, key, MapGet(m, key, a.budget))

\* Storage::has
StorageHas(md, snap, fp, m, b, key) ==
  HasAccessed(md, snap, m, key, Access(md, fp, key, ReadAccess, b))

\* ---------------------------------------------------------------------- state
VARIABLES
  mode,       \* FootprintMode of the Storage: Recording or Enforcing
  snapshot,   \* the SnapshotSource of a recording Storage: key -> entry
  footprint,  \* Footprint.0 / Storage.footprint.0: key -> AccessType
  map,        \* Storage.map: key -> Option<entry>
  budget,     \* the Budget every call is charged to
  last,       \* the call that ran last: its arguments and what it returned
  lastWrite,  \* history: key -> what its latest successful put / del wrote
  tick        \* flips at every call: a call that changes nothing is still a step

\* the Storage, its source and budget, and the record of its calls
storageVars == <<mode, snapshot, footprint, map, budget, last, lastWrite, tick>>

VARIABLES
  temp,       \* TempStorage.map: (contract id, key) -> value
  gets,       \* history: key -> how far the get calls on it have come
  replay,     \* an enforcing Storage that replays the calls of a recording one
  peers,      \* recording Storages over one snapshot source, by name
  called,     \* history: the calls made on each key, and whether one starved
  writes,     \* history: the keys once deleted, the keys written past
  asks        \* history: the Footprint at the start, the accesses recorded since

\* what lies beside the Storage
besideStorage == <<temp, gets, replay, peers, called, writes, asks>>

vars == <<storageVars, besideStorage>>

\* a call record: op(key, ty | val) returned res, with the entry (ret) of a get
\* or the answer (found) of a has, and called the snapshot source or not
Call(op, key, ty, val, res, ret, found, srcGet, srcHas) ==
  [op |-> op, key |-> key, ty |-> ty, val |-> val, res |-> res, ret |-> ret,
   found |-> found, srcGet |-> srcGet, srcHas |-> srcHas]

NoCall == Call("none", "", "", None, Ok, None, FALSE, FALSE, FALSE)

\* the history of writes after a put (val an entry) or del (val None) returned Ok
Written(w, key, val, res) ==
  IF res = Ok
  THEN [k \in DOMAIN w \cup {key} |-> IF k = key THEN val ELSE w[k]]
  ELSE w

\* nothing beside the Storage is in use: TempStorage::default()
NoReplay ==
  [footprint |-> EmptyMap, map |-> EmptyMap,
   budget |-> [unlimited |-> TRUE, left |-> 0],
   clean |-> TRUE, denied |-> FALSE, differs |-> FALSE]

\* the names of the recording Storages that share a snapshot source
Instances == {"s1", "s2"}

\* a recording Storage as with_recording_footprint leaves it, under budget b
NewPeer(b) == [footprint |-> EmptyMap, map |-> EmptyMap, budget |-> b]

NoPeers == [i \in Instances |-> NewPeer([unlimited |-> TRUE, left |-> 0])]

\* no call made yet
NoCalls == [keys |-> [k \in Keys |-> "none"], starved |-> FALSE]

\* no access recorded yet, on an empty Footprint
NoAsks == [start |-> EmptyMap, made |-> {}, failed |-> FALSE]

\* no write made yet
NoWrites == [deleted |-> {}, passed |-> {}]

BesideIdle ==
  /\ temp = EmptyMap
  /\ gets = [k \in Keys |-> "none"]
  /\ replay = NoReplay
  /\ peers = NoPeers
  /\ called = NoCalls
  /\ writes = NoWrites
  /\ asks = NoAsks

\* ------------------------------------------------- the Footprint on its own
\* a Footprint on its own: Footprint::default() or Footprint(map) as the
\* tests build it, under any budget
InitFootprint ==
  /\ mode = Enforcing
  /\ snapshot = EmptyMap
  /\ footprint \in PartialMaps(AccessType)
  /\ map = EmptyMap
  /\ budget \in Budgets
  /\ last = NoCall
  /\ lastWrite = EmptyMap
  /\ tick = FALSE
  /\ BesideIdle

FpRecordAccess(key, ty) ==
  LET r == RecordAccess(footprint, key, ty, budget) IN
  /\ footprint' = r.footprint
  /\ budget' = r.budget
  /\ last' = Call("record_access", key, ty, None, r.res, None, FALSE, FALSE, FALSE)
  /\ tick' = ~tick
  /\ UNCHANGED <<mode, snapshot, map, lastWrite>>
  /\ UNCHANGED besideStorage

FpEnforceAccess(key, ty) ==
  LET r == EnforceAccess(footprint, key, ty, budget) IN
  /\ footprint' = r.footprint
  /\ budget' = r.budget
  /\ last' = Call("enforce_access", key, ty, None, r.res, None, FALSE, FALSE, FALSE)
  /\ tick' = ~tick
  /\ UNCHANGED <<mode, snapshot, map, lastWrite>>
  /\ UNCHANGED besideStorage

NextFootprint ==
  \/ \E key \in Keys, ty \in AccessType : FpRecordAccess(key, ty)
  \/ \E key \in Keys, ty \in AccessType : FpEnforceAccess(key, ty)

SpecFootprint == InitFootprint /\ [][NextFootprint]_vars

\* ------------------------------------ a Footprint whose accesses are followed
\* any Footprint, under any budget, no access recorded on it yet
InitAsked ==
  /\ mode = Enforcing
  /\ snapshot = EmptyMap
  /\ footprint \in PartialMaps(AccessType)
  /\ map = EmptyMap
  /\ budget \in Budgets
  /\ last = NoCall
  /\ lastWrite = EmptyMap
  /\ tick = FALSE
  /\ temp = EmptyMap
  /\ gets = [k \in Keys |-> "none"]
  /\ replay = NoReplay
  /\ peers = NoPeers
  /\ called = NoCalls
  /\ writes = NoWrites
  /\ asks = [NoAsks EXCEPT !.start = footprint]

\* the history after record_access(key, ty) returned res
Asked(a, key, ty, res) ==
  [start |-> a.start, made |-> a.made \cup {<<key, ty>>},
   failed |-> a.failed \/ res # Ok]

AskedRecordAccess(key, ty) ==
  LET r == RecordAccess(footprint, key, ty, budget) IN
  /\ footprint' = r.footprint
  /\ budget' = r.budget
  /\ last' = Call("record_access", key, ty, None, r.res, None, FALSE, FALSE, FALSE)
  /\ tick' = ~tick
  /\ asks' = Asked(asks, key, ty, r.res)
  /\ UNCHANGED <<mode, snapshot, map, lastWrite>>
  /\ UNCHANGED <<temp, gets, replay, peers, called, writes>>

NextAsked == \E key \in Keys, ty \in AccessType : AskedRecordAccess(key, ty)

SpecAsked == InitAsked /\ [][NextAsked]_vars

\* ---------------------------------------------------------------- the Storage
\* Storage::with_recording_footprint(src), over any snapshot, under any budget
InitRecording ==
  /\ mode = Recording
  /\ snapshot \in PartialMaps(Entries)
  /\ footprint = EmptyMap
  /\ map = EmptyMap
  /\ budget \in Budgets
  /\ last = NoCall
  /\ lastWrite = EmptyMap
  /\ tick = FALSE
  /\ BesideIdle

\* Storage::with_enforcing_footprint_and_map(footprint, map), for any footprint
\* and any map, under any budget; an enforcing Storage holds no snapshot source
InitEnforcing ==
  /\ mode = Enforcing
  /\ snapshot = EmptyMap
  /\ footprint \in PartialMaps(AccessType)
  /\ map \in PartialMaps(OptEntries)
  /\ budget \in Budgets
  /\ last = NoCall
  /\ lastWrite = EmptyMap
  /\ tick = FALSE
  /\ BesideIdle

Init == InitRecording \/ InitEnforcing

\* what a call does to the Storage, its budget and the record of its calls
DoGet(key) ==
  LET r == StorageGet(mode, snapshot, footprint, map, budget, key) IN
  /\ footprint' = r.footprint
  /\ map' = r.map
  /\ budget' = r.budget
  /\ last' = Call("get", key, "", None, r.res, r.ret, FALSE, r.srcGet, FALSE)
  /\ tick' = ~tick
  /\ UNCHANGED <<mode, snapshot, lastWrite>>

DoPut(key, val) ==
  LET r == PutOpt(mode, footprint, map, budget, key, val) IN
  /\ footprint' = r.footprint
  /\ map' = r.map
  /\ budget' = r.budget
  /\ last' = Call("put", key, "", val, r.res, None, FALSE, FALSE, FALSE)
  /\ lastWrite' = Written(lastWrite, key, val, r.res)
  /\ tick' = ~tick
  /\ UNCHANGED <<mode, snapshot>>

DoDel(key) ==
  LET r == PutOpt(mode, footprint, map, budget, key, None) IN
  /\ footprint' = r.footprint
  /\ map' = r.map
  /\ budget' = r.budget
  /\ last' = Call("del", key, "", None, r.res, None, FALSE, FALSE, FALSE)
  /\ lastWrite' = Written(lastWrite, key, None, r.res)
  /\ tick' = ~tick
  /\ UNCHANGED <<mode, snapshot>>

\* a has that would leave the Storage in the other mode
DoHas_SwitchesMode(key) ==
  LET r == StorageHas(mode, snapshot, footprint, map, budget, key) IN
  /\ footprint' = r.footprint
  /\ budget' = r.budget
  /\ last' = Call("has", key, "", None, r.res, None, r.found, FALSE, r.srcHas)
  /\ tick' = ~tick
  /\ mode' = IF mode = Recording THEN Enforcing ELSE Recording
  /\ UNCHANGED <<snapshot, map, lastWrite>>

DoHas(key) ==
  LET r == StorageHas(mode, snapshot, footprint, map, budget, key) IN
  /\ footprint' = r.footprint
  /\ budget' = r.budget
  /\ last' = Call("has", key, "", None, r.res, None, r.found, FALSE, r.srcHas)
  /\ tick' = ~tick
  /\ UNCHANGED <<mode, snapshot, map, lastWrite>>

\* the calls of a Storage that has nothing beside it
Get(key) == DoGet(key) /\ UNCHANGED besideStorage

Put(key, val) == DoPut(key, val) /\ UNCHANGED besideStorage

Del(key) == DoDel(key) /\ UNCHANGED besideStorage

Has_SwitchesMode(key) == DoHas_SwitchesMode(key) /\ UNCHANGED besideStorage

Has(key) == DoHas(key) /\ UNCHANGED besideStorage

Next ==
  \/ \E key \in Keys : Get(key)
  \/ \E key \in Keys, val \in Entries : Put(key, val)
  \/ \E key \in Keys : Del(key)
  \/ \E key \in Keys : Has(key)

SpecRecording == InitRecording /\ [][Next]_vars

\* the history of get calls on key after one returned res: "answered" once a
\* get found or loaded the map entry and answered from it (with the entry or
\* with GetOnDeletedKey), "failed" while every get so far broke off before
\* (the source had no entry, or the budget ran out)
Noted(g, key, res) ==
  [g EXCEPT ![key] = IF res \in {Ok, GetOnDeletedKey} THEN "answered"
                     ELSE IF @ = "answered" THEN @ ELSE "failed"]

\* a recording Storage whose get calls are noted
NotedGet(key) ==
  /\ DoGet(key)
  /\ gets' = Noted(gets, key, last'.res)
  /\ UNCHANGED <<temp, replay, peers, called, writes, asks>>

NextNoted ==
  \/ \E key \in Keys : NotedGet(key)
  \/ \E key \in Keys, val \in Entries : Put(key, val)
  \/ \E key \in Keys : Del(key)
  \/ \E key \in Keys : Has(key)

SpecNoted == InitRecording /\ [][NextNoted]_vars

SpecEnforcing == InitEnforcing /\ [][Next]_vars

\* ------------------------------------------ a Storage whose calls are counted
\* the history after a call on key: kind is "read" for get and has, "written"
\* for put and del; the call returned res
Marked(c, key, kind, res) ==
  [keys |-> [c.keys EXCEPT ![key] = IF kind = "written" \/ @ = "written"
                                    THEN "written" ELSE "read"],
   starved |-> c.starved \/ res = BudgetExceeded]

CalledGet(key) ==
  /\ DoGet(key)
  /\ called' = Marked(called, key, "read", last'.res)
  /\ UNCHANGED <<temp, gets, replay, peers, writes, asks>>

CalledPut(key, val) ==
  /\ DoPut(key, val)
  /\ called' = Marked(called, key, "written", last'.res)
  /\ UNCHANGED <<temp, gets, replay, peers, writes, asks>>

CalledDel(key) ==
  /\ DoDel(key)
  /\ called' = Marked(called, key, "written", last'.res)
  /\ UNCHANGED <<temp, gets, replay, peers, writes, asks>>

CalledHas(key) ==
  /\ DoHas(key)
  /\ called' = Marked(called, key, "read", last'.res)
  /\ UNCHANGED <<temp, gets, replay, peers, writes, asks>>

NextCalled ==
  \/ \E key \in Keys : CalledGet(key)
  \/ \E key \in Keys, val \in Entries : CalledPut(key, val)
  \/ \E key \in Keys : CalledDel(key)
  \/ \E key \in Keys : CalledHas(key)

\* a recording Storage from with_recording_footprint, its calls counted
SpecCalled == InitRecording /\ [][NextCalled]_vars

\* ----------------------------------------- a Storage whose writes are followed
\* the history after a put (del FALSE) or del (del TRUE) on key returned res,
\* lw being the latest writes before it: deleted, the keys a del has gone
\* through on; passed, the keys whose latest write was followed by a write to
\* another key
Wrote(w, lw, key, del, res) ==
  IF res = Ok
  THEN [deleted |-> IF del THEN w.deleted \cup {key} ELSE w.deleted,
        passed |-> (w.passed \cup DOMAIN lw) \ {key}]
  ELSE w

WrotePut(key, val) ==
  /\ DoPut(key, val)
  /\ writes' = Wrote(writes, lastWrite, key, FALSE, last'.res)
  /\ UNCHANGED <<temp, gets, replay, peers, called, asks>>

WroteDel(key) ==
  /\ DoDel(key)
  /\ writes' = Wrote(writes, lastWrite, key, TRUE, last'.res)
  /\ UNCHANGED <<temp, gets, replay, peers, called, asks>>

NextWrote ==
  \/ \E key \in Keys : Get(key)
  \/ \E key \in Keys, val \in Entries : WrotePut(key, val)
  \/ \E key \in Keys : WroteDel(key)
  \/ \E key \in Keys : Has(key)

\* a Storage of either mode, its writes followed
SpecWrote == Init /\ [][NextWrote]_vars

\* ------------------------------------------- replaying a recorded footprint
\* the map an enforcing Storage is given for the footprint fp over the snapshot
\* snap: the entry of every footprint key the snapshot contains
Prepopulated(snap, fp) ==
  [k \in DOMAIN fp \cap DOMAIN snap |-> snap[k]]

\* the footprint fp declares no more than decl does
Within(fp, decl) ==
  \A k \in DOMAIN fp :
    k \in DOMAIN decl /\ (fp[k] = ReadWrite => decl[k] = ReadWrite)

\* the replaying Storage after a call that left it (fp, m, b) and returned res;
\* same: it returned what the recording call returned. The recording call
\* returned recRes and left the footprint rec: once a recording call has
\* failed, or recorded what the replayed footprint does not declare, the run
\* is none that this footprint replays, and the replay is dropped (clean is
\* FALSE from then on). denied: a replayed call failed with unknown-entry or
\* readonly-violation; differs: a replayed get or has that the budget let
\* through returned something else
Replayed(rp, fp, m, b, res, same, recRes, rec) ==
  IF ~rp.clean \/ recRes # Ok \/ ~Within(rec, rp.footprint)
  THEN [NoReplay EXCEPT !.clean = FALSE]
  ELSE [footprint |-> fp, map |-> m, budget |-> b, clean |-> TRUE,
        denied |-> rp.denied
                     \/ res \in {AccessToUnknownEntry,
                                 ReadwriteAccessToReadonlyEntry},
        differs |-> rp.differs \/ (res # BudgetExceeded /\ ~same)]

\* a recording Storage over any snapshot, and beside it the enforcing Storage
\* built by with_enforcing_footprint_and_map from a footprint and the map
\* pre-populated for it, under the same budget. The footprint is any: the
\* replay is judged at the states where it is the one the recording has come to
InitReplay ==
  /\ mode = Recording
  /\ snapshot \in PartialMaps(Entries)
  /\ footprint = EmptyMap
  /\ map = EmptyMap
  /\ budget \in Budgets
  /\ last = NoCall
  /\ lastWrite = EmptyMap
  /\ tick = FALSE
  /\ temp = EmptyMap
  /\ gets = [k \in Keys |-> "none"]
  /\ peers = NoPeers
  /\ called = NoCalls
  /\ writes = NoWrites
  /\ asks = NoAsks
  /\ \E fp \in PartialMaps(AccessType) :
       replay = [NoReplay EXCEPT !.footprint = fp,
                                 !.map = Prepopulated(snapshot, fp),
                                 !.budget = budget]

\* each call runs on the recording Storage and on the replaying one
ReplayedGet(key) ==
  /\ DoGet(key)
  /\ LET e == StorageGet(Enforcing, EmptyMap, replay.footprint, replay.map,
                         replay.budget, key) IN
     replay' = Replayed(replay, e.footprint, e.map, e.budget, e.res,
                        e.res = last'.res /\ e.ret = last'.ret, last'.res,
                        footprint')
  /\ UNCHANGED <<temp, gets, peers, called, writes, asks>>

ReplayedPut(key, val) ==
  /\ DoPut(key, val)
  /\ LET e == PutOpt(Enforcing, replay.footprint, replay.map, replay.budget,
                     key, val) IN
     replay' = Replayed(replay, e.footprint, e.map, e.budget, e.res, TRUE,
                        last'.res, footprint')
  /\ UNCHANGED <<temp, gets, peers, called, writes, asks>>

ReplayedDel(key) ==
  /\ DoDel(key)
  /\ LET e == PutOpt(Enforcing, replay.footprint, replay.map, replay.budget,
                     key, None) IN
     replay' = Replayed(replay, e.footprint, e.map, e.budget, e.res, TRUE,
                        last'.res, footprint')
  /\ UNCHANGED <<temp, gets, peers, called, writes, asks>>

ReplayedHas(key) ==
  /\ DoHas(key)
  /\ LET e == StorageHas(Enforcing, EmptyMap, replay.footprint, replay.map,
                         replay.budget, key) IN
     replay' = Replayed(replay, e.footprint, replay.map, e.budget, e.res,
                        e.res = last'.res /\ e.found = last'.found, last'.res,
                        footprint')
  /\ UNCHANGED <<temp, gets, peers, called, writes, asks>>

NextReplay ==
  \/ \E key \in Keys : ReplayedGet(key)
  \/ \E key \in Keys, val \in Entries : ReplayedPut(key, val)
  \/ \E key \in Keys : ReplayedDel(key)
  \/ \E key \in Keys : ReplayedHas(key)

SpecReplay == InitReplay /\ [][NextReplay]_vars

Spec == Init /\ [][Next]_vars

\* ------------------------------------- recording Storages over one snapshot
\* Storages built by with_recording_footprint over the same snapshot source,
\* each run charged to a budget of its own, all of them alike at the start
InitPeers ==
  /\ mode = Recording
  /\ snapshot \in PartialMaps(Entries)
  /\ footprint = EmptyMap
  /\ map = EmptyMap
  /\ budget = [unlimited |-> TRUE, left |-> 0]
  /\ last = NoCall
  /\ lastWrite = EmptyMap
  /\ tick = FALSE
  /\ temp = EmptyMap
  /\ gets = [k \in Keys |-> "none"]
  /\ replay = NoReplay
  /\ \E b \in Budgets : peers = [i \in Instances |-> NewPeer(b)]
  /\ called = NoCalls
  /\ writes = NoWrites
  /\ asks = NoAsks

\* the Storage i after a call that left it (fp, m, b)
PeerAfter(i, fp, m, b) ==
  [peers EXCEPT ![i] = [footprint |-> fp, map |-> m, budget |-> b]]

\* the calls of the Storage i: they run on its own footprint and map
PeerGet(i, key) ==
  LET r == StorageGet(Recording, snapshot, peers[i].footprint, peers[i].map,
                      peers[i].budget, key) IN
  /\ peers' = PeerAfter(i, r.footprint, r.map, r.budget)
  /\ UNCHANGED <<storageVars, temp, gets, replay, called, writes, asks>>

\* a put that would write through to the snapshot source
PeerPut_WritesThrough(i, key, val) ==
  LET r == PutOpt(Recording, peers[i].footprint, peers[i].map,
                  peers[i].budget, key, val) IN
  /\ peers' = PeerAfter(i, r.footprint, r.map, r.budget)
  /\ snapshot' = [k \in DOMAIN snapshot \cup {key} |->
                    IF k = key THEN val ELSE snapshot[k]]
  /\ UNCHANGED <<mode, footprint, map, budget, last, lastWrite, tick>>
  /\ UNCHANGED <<temp, gets, replay, called, writes, asks>>

PeerPut(i, key, val) ==
  LET r == PutOpt(Recording, peers[i].footprint, peers[i].map,
                  peers[i].budget, key, val) IN
  /\ peers' = PeerAfter(i, r.footprint, r.map, r.budget)
  /\ UNCHANGED <<storageVars, temp, gets, replay, called, writes, asks>>

PeerDel(i, key) ==
  LET r == PutOpt(Recording, peers[i].footprint, peers[i].map,
                  peers[i].budget, key, None) IN
  /\ peers' = PeerAfter(i, r.footprint, r.map, r.budget)
  /\ UNCHANGED <<storageVars, temp, gets, replay, called, writes, asks>>

PeerHas(i, key) ==
  LET r == StorageHas(Recording, snapshot, peers[i].footprint, peers[i].map,
                      peers[i].budget, key) IN
  /\ peers' = PeerAfter(i, r.footprint, peers[i].map, r.budget)
  /\ UNCHANGED <<storageVars, temp, gets, replay, called, writes, asks>>

\* the calls of the Storages in any order
NextPeers ==
  \/ \E i \in Instances, key \in Keys : PeerGet(i, key)
  \/ \E i \in Instances, key \in Keys, val \in Entries : PeerPut(i, key, val)
  \/ \E i \in Instances, key \in Keys : PeerDel(i, key)
  \/ \E i \in Instances, key \in Keys : PeerHas(i, key)

SpecPeers == InitPeers /\ [][NextPeers]_vars

\* ------------------------------------------------------------- TempStorage
\* contract ids (Hash) and the keys and values (RawVal) contracts supply
ContractIds == {"c1", "c2"}
TempKeys == {"x", "y"}
RawVals == 1..NVals

\* TempStorage::get after its lookup (g)
TempGetLooked_Missing(m, ck, g) ==
  [budget |-> g.budget,
   res |-> IF ~g.ok THEN BudgetExceeded ELSE MissingKeyInGet,
   ret |-> None]

TempGetLooked(m, ck, g) ==
  [budget |-> g.budget,
   res |-> IF ~g.ok THEN BudgetExceeded
           ELSE IF ~g.found THEN MissingKeyInGet ELSE Ok,
   ret |-> IF g.ok /\ g.found THEN m[ck] ELSE None]

\* TempStorage::put after its insert (i): self.map is assigned only if it went
\* through
TempPutInserted(i) ==
  [map |-> i.map, budget |-> i.budget,
   res |-> IF i.ok THEN Ok ELSE BudgetExceeded]

\* TempStorage::del after its remove (r): Some((new_self, _)) is assigned to
\* self.map, None leaves it
TempDelRemoved_Keeps(m, r) ==
  [map |-> m, budget |-> r.budget,
   res |-> IF r.ok THEN Ok ELSE BudgetExceeded]

TempDelRemoved(m, r) ==
  [map |-> IF r.some THEN r.map ELSE m, budget |-> r.budget,
   res |-> IF r.ok THEN Ok ELSE BudgetExceeded]

\* a has that would answer true whatever the containment check found
TempHasChecked_Always(c) ==
  [budget |-> c.budget,
   res |-> IF c.ok THEN Ok ELSE BudgetExceeded,
   found |-> c.ok]

\* TempStorage::has after its containment check (c)
TempHasChecked(c) ==
  [budget |-> c.budget,
   res |-> IF c.ok THEN Ok ELSE BudgetExceeded,
   found |-> c.found]

\* a TempStorage on its own: TempStorage::default(), under any budget, beside
\* a Storage::default() that nothing calls
InitTemp ==
  /\ mode = Enforcing
  /\ snapshot = EmptyMap
  /\ footprint = EmptyMap
  /\ map = EmptyMap
  /\ budget \in Budgets
  /\ last = NoCall
  /\ lastWrite = EmptyMap
  /\ tick = FALSE
  /\ temp = EmptyMap
  /\ gets = [k \in Keys |-> "none"]
  /\ replay = NoReplay
  /\ peers = NoPeers
  /\ called = NoCalls
  /\ writes = NoWrites
  /\ asks = NoAsks

TempGet(cid, key) ==
  LET r == TempGetLooked(temp, <<cid, key>>, MapGet(temp, <<cid, key>>, budget)) IN
  /\ budget' = r.budget
  /\ last' = Call("temp_get", <<cid, key>>, "", None, r.res, r.ret,
                  FALSE, FALSE, FALSE)
  /\ tick' = ~tick
  /\ UNCHANGED <<mode, snapshot, footprint, map, lastWrite, temp, gets, replay,
               peers, called, writes, asks>>

\* a put that would store the value under the key alone, for every contract
TempPut_AnyContract(cid, key, val) ==
  LET r == TempPutInserted(MapInsert(temp, <<cid, key>>, val, budget)) IN
  /\ temp' = IF r.res = Ok
             THEN [ck \in DOMAIN temp \cup {<<c, key>> : c \in ContractIds} |->
                     IF ck[2] = key THEN val ELSE temp[ck]]
             ELSE temp
  /\ budget' = r.budget
  /\ last' = Call("temp_put", <<cid, key>>, "", val, r.res, None,
                  FALSE, FALSE, FALSE)
  /\ lastWrite' = Written(lastWrite, <<cid, key>>, val, r.res)
  /\ tick' = ~tick
  /\ UNCHANGED <<mode, snapshot, footprint, map, gets, replay, peers, called, writes, asks>>

TempPut(cid, key, val) ==
  LET r == TempPutInserted(MapInsert(temp, <<cid, key>>, val, budget)) IN
  /\ temp' = r.map
  /\ budget' = r.budget
  /\ last' = Call("temp_put", <<cid, key>>, "", val, r.res, None,
                  FALSE, FALSE, FALSE)
  /\ lastWrite' = Written(lastWrite, <<cid, key>>, val, r.res)
  /\ tick' = ~tick
  /\ UNCHANGED <<mode, snapshot, footprint, map, gets, replay, peers, called, writes, asks>>

TempDel(cid, key) ==
  LET r == TempDelRemoved(temp, MapRemove(temp, <<cid, key>>, budget)) IN
  /\ temp' = r.map
  /\ budget' = r.budget
  /\ last' = Call("temp_del", <<cid, key>>, "", None, r.res, None,
                  FALSE, FALSE, FALSE)
  /\ lastWrite' = Written(lastWrite, <<cid, key>>, None, r.res)
  /\ tick' = ~tick
  /\ UNCHANGED <<mode, snapshot, footprint, map, gets, replay, peers, called, writes, asks>>

TempHas(cid, key) ==
  LET r == TempHasChecked(MapContainsKey(temp, <<cid, key>>, budget)) IN
  /\ budget' = r.budget
  /\ last' = Call("temp_has", <<cid, key>>, "", None, r.res, None,
                  r.found, FALSE, FALSE)
  /\ tick' = ~tick
  /\ UNCHANGED <<mode, snapshot, footprint, map, lastWrite, temp, gets, replay,
               peers, called, writes, asks>>

NextTemp ==
  \/ \E cid \in ContractIds, key \in TempKeys : TempGet(cid, key)
  \/ \E cid \in ContractIds, key \in TempKeys, val \in RawVals :
       TempPut(cid, key, val)
  \/ \E cid \in ContractIds, key \in TempKeys : TempDel(cid, key)
  \/ \E cid \in ContractIds, key \in TempKeys : TempHas(cid, key)

SpecTemp == InitTemp /\ [][NextTemp]_vars

\* ------------------------------------------------------ Footprint properties
\* the budget covers n more map operations
Affords(b, n) == b.unlimited \/ b.left >= n

HasLevel(fp, key, ty) == key \in DOMAIN fp /\ fp[key] = ty

\* C1: upgrade monotonicity. Whatever Footprint call runs, a key recorded
\* ReadWrite stays in the footprint at ReadWrite: no record_access(key, ReadOnly)
\* lowers it and nothing removes it.
C1_UpgradeMonotonicity ==
  [][\A k \in Keys :
       HasLevel(footprint, k, ReadWrite) => HasLevel(footprint', k, ReadWrite)]_vars

\* a record_access(key, ReadOnly) returned Ok on a key held at ReadWrite
C1_Witness ==
  /\ last.op = "record_access" /\ last.ty = ReadOnly /\ last.res = Ok
  /\ HasLevel(footprint, last.key, ReadWrite)

\* C2: record_access(key, ty) follows the transition table from every prior
\* footprint: an absent key is inserted at ty; (ReadOnly, ReadOnly) stays
\* ReadOnly; (ReadOnly, ReadWrite) becomes ReadWrite; (ReadWrite, any) stays
\* ReadWrite; every other key keeps its entry; and the call fails only when a
\* budget charge fails.
C2_RecordAccessTable ==
  [][last'.op = "record_access" =>
       LET k == last'.key
           ty == last'.ty
       IN
       /\ last'.res \in {Ok, BudgetExceeded}
       /\ last'.res = BudgetExceeded => ~Affords(budget, 2) /\ budget'.left = 0
       /\ last'.res = Ok =>
            /\ DOMAIN footprint' = DOMAIN footprint \cup {k}
            /\ \A j \in DOMAIN footprint \ {k} : footprint'[j] = footprint[j]
            /\ footprint'[k] =
                 IF k \notin DOMAIN footprint THEN ty
                 ELSE IF footprint[k] = ReadWrite THEN ReadWrite
                 ELSE IF ty = ReadWrite THEN ReadWrite
                 ELSE ReadOnly]_vars

\* a record_access(key, ReadWrite) returned Ok next to another key held ReadOnly
C2_Witness ==
  /\ last.op = "record_access" /\ last.ty = ReadWrite /\ last.res = Ok
  /\ HasLevel(footprint, last.key, ReadWrite)
  /\ \E j \in Keys \ {last.key} : HasLevel(footprint, j, ReadOnly)

\* C3: enforce_access(key, ty) on a footprint with no entry for key fails with
\* AccessToUnknownEntry, for either level (with the metering failure in its
\* place when the budget cannot pay for the lookup).
C3_EnforceUnknownEntry ==
  [][(last'.op = "enforce_access" /\ last'.key \notin DOMAIN footprint) =>
       last'.res = IF Affords(budget, 1) THEN AccessToUnknownEntry
                   ELSE BudgetExceeded]_vars

\* an enforce_access(key, ReadWrite) on an undeclared key returned unknown-entry
C3_Witness ==
  /\ last.op = "enforce_access" /\ last.ty = ReadWrite
  /\ last.key \notin DOMAIN footprint
  /\ last.res = AccessToUnknownEntry

\* C4: with k declared ReadOnly, enforce_access(k, ReadWrite) fails with
\* ReadwriteAccessToReadonlyEntry and enforce_access(k, ReadOnly) succeeds (with
\* the metering failure in their place when the budget cannot pay for the
\* lookup).
C4_EnforceReadOnlyDeclared ==
  [][(last'.op = "enforce_access" /\ HasLevel(footprint, last'.key, ReadOnly)) =>
       last'.res = IF ~Affords(budget, 1) THEN BudgetExceeded
                   ELSE IF last'.ty = ReadWrite THEN ReadwriteAccessToReadonlyEntry
                   ELSE Ok]_vars

\* an enforce_access(k, ReadWrite) was rejected on a key declared ReadOnly
C4_Witness ==
  /\ last.op = "enforce_access" /\ last.ty = ReadWrite
  /\ HasLevel(footprint, last.key, ReadOnly)
  /\ last.res = ReadwriteAccessToReadonlyEntry

\* C5: with k declared ReadWrite, enforce_access(k, ReadOnly) and
\* enforce_access(k, ReadWrite) both succeed (with the metering failure in
\* their place when the budget cannot pay for the lookup).
C5_EnforceReadWriteDeclared ==
  [][(last'.op = "enforce_access" /\ HasLevel(footprint, last'.key, ReadWrite)) =>
       last'.res = IF Affords(budget, 1) THEN Ok ELSE BudgetExceeded]_vars

\* an enforce_access(k, ReadOnly) returned Ok on a key declared ReadWrite
C5_Witness ==
  /\ last.op = "enforce_access" /\ last.ty = ReadOnly
  /\ HasLevel(footprint, last.key, ReadWrite)
  /\ last.res = Ok

\* -------------------------------------------------------- Storage properties
\* the footprint (or map) holds key at v and nothing else
Only(f, key, v) == DOMAIN f = {key} /\ f[key] = v

\* the latest successful write to key was a del
Deleted(key) == key \in DOMAIN lastWrite /\ lastWrite[key] = None

\* C6: inference read-through memoization. On a fresh recording Storage over a
\* snapshot that contains A, the first get(A) returns the snapshot's entry,
\* calls the source's get and leaves the footprint at {A: ReadOnly}; the
\* get(A) that follows it returns the same entry without calling the source
\* and leaves the footprint at {A: ReadOnly}: two gets, one source call.
\* (Calls that run out of budget are set aside.)
C6_ReadThroughMemoization ==
  [][\A k \in DOMAIN snapshot :
       (mode = Recording /\ last'.op = "get" /\ last'.key = k
          /\ last'.res # BudgetExceeded) =>
         /\ (footprint = EmptyMap /\ map = EmptyMap) =>
              /\ last'.res = Ok /\ last'.ret = snapshot[k]
              /\ last'.srcGet
              /\ Only(footprint', k, ReadOnly)
         /\ (/\ last.op = "get" /\ last.key = k /\ last.res = Ok /\ last.srcGet
             /\ Only(footprint, k, ReadOnly) /\ DOMAIN map = {k}) =>
              /\ last'.res = Ok /\ last'.ret = snapshot[k]
              /\ ~last'.srcGet
              /\ Only(footprint', k, ReadOnly)]_vars

\* a get(A) answered from the map what an earlier get(A) had read through
C6_Witness ==
  /\ mode = Recording
  /\ last.op = "get" /\ last.res = Ok /\ ~last.srcGet
  /\ last.key \in DOMAIN snapshot /\ last.ret = snapshot[last.key]
  /\ Only(footprint, last.key, ReadOnly)
  /\ Only(map, last.key, snapshot[last.key])

\* C7: write upgrades the access level. In Recording mode, once get(A) has left
\* the footprint at {A: ReadOnly}, put(A, v) makes it {A: ReadWrite}; and the
\* get(A) that follows a successful put(A, v) returns v without calling the
\* source. (Calls that run out of budget are set aside.)
C7_WriteUpgradesAccess ==
  [][\A k \in Keys :
       /\ (/\ mode = Recording
           /\ last.op = "get" /\ last.key = k /\ Only(footprint, k, ReadOnly)
           /\ last'.op = "put" /\ last'.key = k /\ last'.res # BudgetExceeded) =>
            /\ last'.res = Ok
            /\ Only(footprint', k, ReadWrite)
       /\ (/\ mode = Recording
           /\ last.op = "put" /\ last.key = k /\ last.res = Ok
           /\ last'.op = "get" /\ last'.key = k /\ last'.res # BudgetExceeded) =>
            /\ last'.res = Ok /\ last'.ret = last.val
            /\ ~last'.srcGet]_vars

\* a get(A) returned an entry that was put over the one the snapshot holds
C7_Witness ==
  /\ mode = Recording
  /\ last.op = "get" /\ last.res = Ok /\ ~last.srcGet
  /\ last.key \in DOMAIN snapshot /\ last.ret # snapshot[last.key]
  /\ Only(footprint, last.key, ReadWrite)
  /\ last.key \in DOMAIN lastWrite /\ lastWrite[last.key] = last.ret

\* C8: deletion semantics. While the latest successful write to A is a del
\* (no put(A, _) has succeeded since), every get(A) fails with GetOnDeletedKey
\* and every has(A) returns false, in either mode, and neither call asks the
\* snapshot source. (Calls that run out of budget are set aside.)
C8_DeletionSemantics ==
  (Deleted(last.key) /\ last.res # BudgetExceeded) =>
    /\ last.op = "get" => last.res = GetOnDeletedKey /\ ~last.srcGet
    /\ last.op = "has" => last.res = Ok /\ ~last.found /\ ~last.srcHas

\* a recording get(A) failed with deleted-key on a key the snapshot contains
C8_Witness ==
  /\ mode = Recording
  /\ last.op = "get" /\ Deleted(last.key) /\ last.key \in DOMAIN snapshot
  /\ last.res = GetOnDeletedKey

\* C9: enforcement requires pre-population. In Enforcing mode, get(B) on a key
\* the footprint declares (at either level) and the map does not hold fails
\* with MissingKeyInGet, not AccessToUnknownEntry, and no snapshot source is
\* asked (with the metering failure in its place when the budget cannot pay for
\* the two lookups).
C9_EnforcingGetUnloaded ==
  [][(/\ mode = Enforcing /\ last'.op = "get"
      /\ last'.key \in DOMAIN footprint /\ last'.key \notin DOMAIN map) =>
       /\ last'.res = IF Affords(budget, 2) THEN MissingKeyInGet
                      ELSE BudgetExceeded
       /\ ~last'.srcGet]_vars

\* an enforcing get(B) failed with missing-key on a declared, unloaded key
C9_Witness ==
  /\ mode = Enforcing
  /\ last.op = "get" /\ last.res = MissingKeyInGet
  /\ HasLevel(footprint, last.key, ReadOnly) /\ last.key \notin DOMAIN map

\* C10: in Enforcing mode put(key, v) and del(key) succeed only if key is
\* declared ReadWrite; they fail with ReadwriteAccessToReadonlyEntry on a key
\* declared ReadOnly and with AccessToUnknownEntry on an undeclared key (with
\* the metering failure in their place when the budget cannot pay for the
\* lookup); on success the map holds Some(v) for key after put and the
\* tombstone None after del.
C10_EnforcingWrite ==
  [][(mode = Enforcing /\ last'.op \in {"put", "del"}) =>
       LET k == last'.key IN
       /\ last'.res = Ok =>
            /\ HasLevel(footprint, k, ReadWrite)
            /\ k \in DOMAIN map'
            /\ map'[k] = last'.val
            /\ last'.op = "del" => map'[k] = None
            /\ last'.op = "put" => map'[k] \in Entries
       /\ (HasLevel(footprint, k, ReadOnly) /\ Affords(budget, 1)) =>
            last'.res = ReadwriteAccessToReadonlyEntry
       /\ (k \notin DOMAIN footprint /\ Affords(budget, 1)) =>
            last'.res = AccessToUnknownEntry]_vars

\* an enforcing del succeeded on a ReadWrite key next to a ReadOnly one
C10_Witness ==
  /\ mode = Enforcing
  /\ last.op = "del" /\ last.res = Ok
  /\ HasLevel(footprint, last.key, ReadWrite)
  /\ map[last.key] = None
  /\ \E j \in Keys \ {last.key} : HasLevel(footprint, j, ReadOnly)

\* ------------------------------------------------------ Enforcing properties
\* the entry the map holds for key: <<e>>, or <<>> when the map has none
EntryOf(m, key) == IF key \in DOMAIN m THEN <<m[key]>> ELSE <<>>

\* C11: in Enforcing mode get(key) succeeds only if the footprint declares
\* key. On an undeclared key it fails with AccessToUnknownEntry, also when the
\* map holds a live entry for key. On a declared key it answers from the map:
\* no entry gives MissingKeyInGet, the tombstone GetOnDeletedKey, Some(v) gives
\* v. (The metering failure takes their place when the budget cannot pay for
\* the lookups: one on an undeclared key, two on a declared one.)
C11_EnforcingGet ==
  [][(mode = Enforcing /\ last'.op = "get") =>
       LET k == last'.key IN
       /\ last'.res = Ok => k \in DOMAIN footprint
       /\ (k \notin DOMAIN footprint /\ Affords(budget, 1)) =>
            last'.res = AccessToUnknownEntry
       /\ (k \in DOMAIN footprint /\ Affords(budget, 2)) =>
            /\ k \notin DOMAIN map => last'.res = MissingKeyInGet
            /\ (k \in DOMAIN map /\ map[k] = None) => last'.res = GetOnDeletedKey
            /\ (k \in DOMAIN map /\ map[k] \in Entries) =>
                 last'.res = Ok /\ last'.ret = map[k]
       /\ map' = map /\ footprint' = footprint /\ ~last'.srcGet]_vars

\* an enforcing get failed with unknown-entry on an undeclared key whose map
\* entry is live
C11_Witness ==
  /\ mode = Enforcing
  /\ last.op = "get" /\ last.res = AccessToUnknownEntry
  /\ last.key \notin DOMAIN footprint
  /\ last.key \in DOMAIN map /\ map[last.key] \in Entries

\* C12: an Enforcing Storage touches only the keys its footprint declares. In
\* every step of every sequence of get / put / del / has calls the footprint
\* stays as declared, a call on key returns Ok only if key is in the footprint,
\* and the map entry of a key changes only if the key is declared ReadWrite:
\* so an entry that differs from its initial value belongs to a ReadWrite key.
C12_EnforcingTouchesDeclaredOnly ==
  [][mode = Enforcing =>
       /\ footprint' = footprint
       /\ last'.res = Ok => last'.key \in DOMAIN footprint
       /\ \A k \in Keys :
            EntryOf(map', k) # EntryOf(map, k) =>
              HasLevel(footprint, k, ReadWrite)]_vars

\* an enforcing put went through on a ReadWrite key while the map holds an
\* entry for a key declared ReadOnly and one the footprint does not name is
\* absent from it
C12_Witness ==
  /\ mode = Enforcing
  /\ last.op = "put" /\ last.res = Ok
  /\ HasLevel(footprint, last.key, ReadWrite)
  /\ map[last.key] = last.val
  /\ \E j \in Keys \ {last.key} :
       HasLevel(footprint, j, ReadOnly) /\ j \in DOMAIN map

\* every key whose map entry is Some(entry) is in the footprint (at ReadOnly or
\* ReadWrite)
LiveKeysDeclared ==
  \A k \in DOMAIN map : map[k] \in Entries => k \in DOMAIN footprint

\* C13 as stated: in every reachable state of an Enforcing Storage built by
\* with_enforcing_footprint_and_map from any footprint and any map, every key
\* whose map entry is Some(entry) has at least ReadOnly in the footprint.
C13_AsStated == mode = Enforcing => LiveKeysDeclared

\* C13: the calls of an Enforcing Storage preserve it. If every key whose map
\* entry is Some(entry) is in the footprint before a get / put / del / has
\* call, the same is true after it; the constructor checks nothing, so it
\* holds in every reachable state only of a Storage that is built with it.
C13_LiveKeysDeclaredPreserved ==
  [][(mode = Enforcing /\ LiveKeysDeclared) => LiveKeysDeclared']_vars

\* an enforcing put stored Some(v) in a Storage whose live keys are declared
C13_Witness ==
  /\ mode = Enforcing
  /\ last.op = "put" /\ last.res = Ok
  /\ map[last.key] \in Entries
  /\ LiveKeysDeclared
  /\ \E j \in Keys \ {last.key} : j \notin DOMAIN footprint

\* C14: no get, put, del or has call, whether it returns Ok or fails, changes
\* the mode of a Storage: a Recording Storage stays Recording over the same
\* snapshot source, an Enforcing one (Storage::default() included) stays
\* Enforcing.
C14_ModeFixed ==
  [][mode' = mode /\ snapshot' = snapshot]_vars

\* a recording call failed (the source has no entry, or the budget ran out)
\* on a Storage that an earlier successful call has left its mark on
C14_Witness ==
  /\ mode = Recording
  /\ last.res \in {SourceError, BudgetExceeded}
  /\ footprint # EmptyMap /\ map # EmptyMap

\* ------------------------------------------------------ Recording properties
\* C20: a Recording has(k) records ReadOnly access for k (an absent key enters
\* the footprint at ReadOnly, a present one keeps its level, every other key
\* its entry) and answers from the map first: the tombstone gives false,
\* Some(entry) gives true, both without asking the source. Only when the map
\* has no entry for k does it return the source's has(k), and it caches
\* nothing: has leaves the map as it is, so a has(k) that follows asks the
\* source again. (Calls that run out of budget are set aside.)
C20_RecordingHas ==
  [][(mode = Recording /\ last'.op = "has") =>
       LET k == last'.key IN
       /\ map' = map
       /\ last'.res \in {Ok, BudgetExceeded}
       /\ last'.res = Ok =>
            /\ footprint' = [j \in DOMAIN footprint \cup {k} |->
                               IF j \in DOMAIN footprint THEN footprint[j]
                               ELSE ReadOnly]
            /\ (k \in DOMAIN map /\ map[k] = None) =>
                 ~last'.found /\ ~last'.srcHas
            /\ (k \in DOMAIN map /\ map[k] \in Entries) =>
                 last'.found /\ ~last'.srcHas
            /\ k \notin DOMAIN map =>
                 last'.srcHas /\ last'.found = SnapshotHas(snapshot, k)
       /\ (/\ last.op = "has" /\ last.key = k /\ last.res = Ok /\ last.srcHas
           /\ last'.res = Ok) => last'.srcHas]_vars

\* a recording has(k) asked the source, which holds k, and answered true; the
\* map still has no entry for k, and holds one for the other key
C20_Witness ==
  /\ mode = Recording
  /\ last.op = "has" /\ last.res = Ok /\ last.srcHas /\ last.found
  /\ last.key \notin DOMAIN map /\ last.key \in DOMAIN snapshot
  /\ HasLevel(footprint, last.key, ReadOnly)
  /\ map # EmptyMap

\* ---------------------------------------------------- TempStorage properties
\* C16: ephemeral round trip. From every state of the TempStorage, for every
\* contract id ns, key k and value v: after a put(ns, k, v) that went through,
\* get(ns, k) returns v (until the next write to (ns, k)); after a del(ns, k)
\* that went through, get(ns, k) fails with MissingKeyInGet and has(ns, k)
\* returns false. (Calls that run out of budget are set aside.)
C16_TempRoundTrip ==
  [][LET ck == last'.key IN
     /\ (last'.op = "temp_put" /\ last'.res = Ok) =>
          ck \in DOMAIN temp' /\ temp'[ck] = last'.val
     /\ (last'.op = "temp_del" /\ last'.res = Ok) => ck \notin DOMAIN temp'
     /\ (/\ last'.op = "temp_get" /\ last'.res # BudgetExceeded
         /\ ck \in DOMAIN lastWrite /\ lastWrite[ck] # None) =>
          last'.res = Ok /\ last'.ret = lastWrite[ck]
     /\ (/\ last'.op = "temp_get" /\ last'.res # BudgetExceeded
         /\ Deleted(ck)) =>
          last'.res = MissingKeyInGet
     /\ (/\ last'.op = "temp_has" /\ last'.res # BudgetExceeded
         /\ Deleted(ck)) =>
          last'.res = Ok /\ ~last'.found]_vars

\* a get failed with missing-key on a pair whose latest write is a del, while
\* the map holds the same key under the other contract id
C16_Witness ==
  /\ last.op = "temp_get" /\ last.res = MissingKeyInGet
  /\ Deleted(last.key)
  /\ \E cid \in ContractIds : <<cid, last.key[2]>> \in DOMAIN temp

\* --------------------------------------------------- read-through properties
\* C19 as stated: on a recording Storage, once a get(k) call has been made, no
\* later get(k) or has(k) calls the snapshot source, whatever the snapshot
\* holds.
C19_AsStated ==
  [][(/\ mode = Recording /\ last'.op \in {"get", "has"}
      /\ gets[last'.key] # "none") =>
       ~last'.srcGet /\ ~last'.srcHas]_vars

\* C19: on a recording Storage, once a get(k) call has answered from the map
\* (it returned the entry, or GetOnDeletedKey), no later get(k) or has(k) calls
\* the snapshot source, and k has an entry in the map from then on. A get(k)
\* that the source failed (a snapshot without k) caches nothing: until an
\* entry for k is written, each later get(k) that gets as far calls the
\* source's get again and each has(k) its has.
C19_NoSourceAfterAnsweredGet ==
  [][mode = Recording =>
       /\ \A k \in Keys : gets[k] = "answered" => k \in DOMAIN map
       /\ (last'.op \in {"get", "has"} /\ gets[last'.key] = "answered") =>
            ~last'.srcGet /\ ~last'.srcHas
       /\ (/\ last'.op \in {"get", "has"} /\ last'.key \notin DOMAIN map
           /\ last'.key \notin DOMAIN snapshot
           /\ Affords(budget, 3)) =>
            /\ last'.op = "get" => last'.srcGet /\ last'.res = SourceError
            /\ last'.op = "has" => last'.srcHas /\ ~last'.found]_vars

\* a recording has(k) answered from the map, without the source, on a key the
\* snapshot holds, which a get(k) has loaded and nothing has written
C19_Witness ==
  /\ mode = Recording
  /\ last.op = "has" /\ last.res = Ok /\ last.found /\ ~last.srcHas
  /\ gets[last.key] = "answered"
  /\ last.key \notin DOMAIN lastWrite
  /\ last.key \in DOMAIN snapshot /\ map[last.key] = snapshot[last.key]

\* ----------------------------------------------------------- replay property
\* C15: replay of a recorded footprint. Take any sequence of calls that ran
\* without failure on a recording Storage over a snapshot, the footprint it has
\* come to, and the enforcing Storage built from that footprint and the map
\* pre-populated from the snapshot for every footprint key the snapshot
\* contains: replaying the sequence, no call fails with AccessToUnknownEntry or
\* ReadwriteAccessToReadonlyEntry, and every get and has returns what it
\* returned in the recording run. (Replayed calls that run out of budget are
\* set aside.)
C15_ReplayAgrees ==
  (mode = Recording /\ replay.clean /\ replay.footprint = footprint) =>
    ~replay.denied /\ ~replay.differs

\* a clean recording run that read one key and wrote the other was replayed
\* on its own footprint; its last get returned an entry that a put had stored
\* over the snapshot's
C15_Witness ==
  /\ mode = Recording /\ replay.clean /\ replay.footprint = footprint
  /\ ~replay.denied /\ ~replay.differs
  /\ last.op = "get" /\ last.res = Ok
  /\ HasLevel(footprint, last.key, ReadWrite)
  /\ last.key \in DOMAIN snapshot /\ last.ret # snapshot[last.key]
  /\ replay.map = map
  /\ \E j \in Keys : HasLevel(footprint, j, ReadOnly)

\* ------------------------------------------------------------ peer property
\* what the Storage st answers to get(key) and to has(key) over the snapshot
\* snap, and how each call leaves it
Answers(snap, st) ==
  [key \in Keys |->
     <<StorageGet(Recording, snap, st.footprint, st.map, st.budget, key),
       StorageHas(Recording, snap, st.footprint, st.map, st.budget, key)>>]

\* C18: recording passes are isolated. The calls of a recording Storage only
\* read the snapshot source: when recording Storages over one snapshot have
\* their calls interleaved in any order, a call of one leaves the snapshot and
\* the footprint, map and budget of every other Storage as they were, and
\* every other Storage answers each get and has it makes next with the same
\* result, footprint and map as before that call: as when it runs alone.
C18_RecordingIsolated ==
  [][/\ snapshot' = snapshot
     /\ \A i \in Instances :
          peers'[i] # peers[i] =>
            \A j \in Instances \ {i} :
              /\ peers'[j] = peers[j]
              /\ Answers(snapshot', peers'[j]) = Answers(snapshot, peers[j])]_vars

\* two recording Storages over a snapshot that holds both keys: one has read a
\* key whose entry the other has overwritten in its own map, and the other has
\* deleted the key that the first one has not touched
C18_Witness ==
  \E i, j \in Instances, k, d \in Keys :
    /\ i # j /\ k # d /\ DOMAIN snapshot = Keys
    /\ HasLevel(peers[i].footprint, k, ReadOnly)
    /\ k \in DOMAIN peers[i].map /\ peers[i].map[k] = snapshot[k]
    /\ HasLevel(peers[j].footprint, k, ReadWrite)
    /\ k \in DOMAIN peers[j].map /\ peers[j].map[k] \in Entries \ {snapshot[k]}
    /\ d \notin DOMAIN peers[i].footprint
    /\ d \in DOMAIN peers[j].map /\ peers[j].map[d] = None

\* ------------------------------------------------------------- error handling
\* C21: in Enforcing mode, has(k) on a key the footprint declares and the map
\* has no entry for returns false and does not fail, whereas get(k) in the
\* same state fails with MissingKeyInGet. has(k) fails only with
\* AccessToUnknownEntry, when k is not declared, or with the metering failure,
\* when the budget cannot pay for its two lookups.
C21_EnforcingHasUnloaded ==
  [][mode = Enforcing =>
       LET k == last'.key
           unloaded == k \in DOMAIN footprint /\ k \notin DOMAIN map
       IN
       /\ (last'.op = "has" /\ unloaded /\ Affords(budget, 2)) =>
            last'.res = Ok /\ ~last'.found /\ ~last'.srcHas
       /\ (last'.op = "get" /\ unloaded /\ Affords(budget, 2)) =>
            last'.res = MissingKeyInGet
       /\ last'.op = "has" =>
            /\ last'.res \in {Ok, AccessToUnknownEntry, BudgetExceeded}
            /\ last'.res = AccessToUnknownEntry => k \notin DOMAIN footprint
            /\ last'.res = BudgetExceeded => ~Affords(budget, 2)]_vars

\* an enforcing has answered false on a key declared ReadOnly that the map has
\* no entry for, under a budget that just paid for it
C21_Witness ==
  /\ mode = Enforcing
  /\ last.op = "has" /\ last.res = Ok /\ ~last.found
  /\ HasLevel(footprint, last.key, ReadOnly) /\ last.key \notin DOMAIN map
  /\ ~budget.unlimited /\ budget.left = 0

\* C22: a Recording put(k, v) or del(k) records ReadWrite for k whatever the
\* footprint held for it, overwrites the map entry of k with Some(v) or the
\* tombstone whatever the map held for it, leaves every other key as it was,
\* and does not call the snapshot source, also on a key that was never loaded.
\* It fails only on the budget: never when the budget pays for three map
\* operations.
C22_RecordingWrite ==
  [][(mode = Recording /\ last'.op \in {"put", "del"}) =>
       LET k == last'.key IN
       /\ last'.res \in {Ok, BudgetExceeded}
       /\ Affords(budget, 3) => last'.res = Ok
       /\ ~last'.srcGet /\ ~last'.srcHas
       /\ last'.res = Ok =>
            /\ HasLevel(footprint', k, ReadWrite)
            /\ k \in DOMAIN map' /\ map'[k] = last'.val
            /\ last'.op = "del" => map'[k] = None
            /\ last'.op = "put" => map'[k] \in Entries
            /\ \A j \in Keys \ {k} :
                 /\ EntryOf(map', j) = EntryOf(map, j)
                 /\ EntryOf(footprint', j) = EntryOf(footprint, j)]_vars

\* a recording del put the tombstone over an entry that a get had loaded from
\* the snapshot, and raised the key from ReadOnly to ReadWrite
C22_Witness ==
  /\ mode = Recording
  /\ last.op = "del" /\ last.res = Ok
  /\ gets[last.key] = "answered" /\ last.key \in DOMAIN snapshot
  /\ map[last.key] = None /\ HasLevel(footprint, last.key, ReadWrite)

\* C23: a Recording get never fails with MissingKeyInGet: from every reachable
\* state and for every key it returns an entry, or fails with GetOnDeletedKey,
\* with the failure of the snapshot source, or on the budget.
C23_RecordingGetNeverMissing ==
  (mode = Recording /\ last.op = "get") =>
    /\ last.res \in {Ok, GetOnDeletedKey, SourceError, BudgetExceeded}
    /\ last.res = Ok => last.ret \in Entries

\* a recording get read an entry through from the snapshot source
C23_Witness ==
  /\ mode = Recording
  /\ last.op = "get" /\ last.res = Ok /\ last.srcGet
  /\ last.key \in DOMAIN snapshot /\ last.ret = snapshot[last.key]

\* C24: when the snapshot source's get fails for a key k the map has no entry
\* for, a Recording get(k) returns that failure (not MissingKeyInGet or
\* GetOnDeletedKey), inserts nothing into the map, and leaves k in the
\* footprint: at ReadOnly if it was not there, at its level if it was. (With the
\* metering failure in its place when the budget cannot pay for the three map
\* operations before the source is asked.)
C24_SourceFailurePropagated ==
  [][(/\ mode = Recording /\ last'.op = "get"
      /\ last'.key \notin DOMAIN map /\ ~SnapshotGet(snapshot, last'.key).ok) =>
       LET k == last'.key IN
       /\ map' = map
       /\ last'.res \in {SourceError, BudgetExceeded}
       /\ Affords(budget, 3) =>
            /\ last'.res = SourceError /\ last'.srcGet
            /\ footprint' = [j \in DOMAIN footprint \cup {k} |->
                               IF j \in DOMAIN footprint THEN footprint[j]
                               ELSE ReadOnly]]_vars

\* a recording get returned the source's failure on a key it had not recorded
\* before; the key is now ReadOnly in the footprint and not in the map
C24_Witness ==
  /\ mode = Recording
  /\ last.op = "get" /\ last.res = SourceError /\ last.srcGet
  /\ last.key \notin DOMAIN map /\ last.key \notin DOMAIN snapshot
  /\ HasLevel(footprint, last.key, ReadOnly)
  /\ map # EmptyMap

\* C25: when a budget charge fails inside record_access or enforce_access, the
\* call returns the metering failure and the footprint is what it was before
\* the call: no insert or upgrade is applied in part. The charge that fails is
\* the lookup's (both calls), or the insert's after a lookup that was paid for
\* (record_access of a new key or of an upgrade).
C25_FootprintMeteringAtomic ==
  [][last'.op \in {"record_access", "enforce_access"} =>
       LET k == last'.key
           inserts == /\ last'.op = "record_access"
                      /\ \/ k \notin DOMAIN footprint
                         \/ footprint[k] = ReadOnly /\ last'.ty = ReadWrite
       IN
       /\ ~Affords(budget, IF inserts THEN 2 ELSE 1) =>
            last'.res = BudgetExceeded
       /\ last'.res = BudgetExceeded =>
            /\ footprint' = footprint
            /\ ~Affords(budget, IF inserts THEN 2 ELSE 1)
            /\ ~Affords(budget', 1)]_vars

\* a record_access(k, ReadWrite) ran out of budget on a key held at ReadOnly,
\* which stays at ReadOnly
C25_Witness ==
  /\ last.op = "record_access" /\ last.ty = ReadWrite
  /\ last.res = BudgetExceeded
  /\ HasLevel(footprint, last.key, ReadOnly)

\* ---------------------------------------------------- TempStorage edge cases
\* C26: ephemeral edge cases. A get on a (contract id, key) the map does not
\* hold fails with MissingKeyInGet, and on one it holds returns its value; a
\* del on a pair the map does not hold succeeds and leaves the map as it was;
\* a put on a pair the map holds replaces its value; has never fails for lack
\* of the pair, and returns true exactly when the map holds it. (Each call is
\* one charged map operation: it fails with the metering failure exactly when
\* the budget cannot pay for it.)
C26_TempEdgeCases ==
  [][last'.op \in {"temp_get", "temp_put", "temp_del", "temp_has"} =>
       LET ck == last'.key
           held == ck \in DOMAIN temp
       IN
       /\ last'.res = BudgetExceeded <=> ~Affords(budget, 1)
       /\ last'.res # BudgetExceeded =>
            /\ last'.op = "temp_get" =>
                 /\ ~held => last'.res = MissingKeyInGet
                 /\ held => last'.res = Ok /\ last'.ret = temp[ck]
            /\ last'.op = "temp_del" =>
                 /\ last'.res = Ok
                 /\ ~held => temp' = temp
            /\ last'.op = "temp_put" =>
                 /\ last'.res = Ok
                 /\ ck \in DOMAIN temp' /\ temp'[ck] = last'.val
                 /\ DOMAIN temp' = DOMAIN temp \cup {ck}
            /\ last'.op = "temp_has" =>
                 last'.res = Ok /\ (last'.found <=> held)]_vars

\* a get failed with missing-key on a pair that was never written, in a map
\* that holds the same key under the other contract id
C26_Witness ==
  /\ last.op = "temp_get" /\ last.res = MissingKeyInGet
  /\ last.key \notin DOMAIN lastWrite /\ last.key \notin DOMAIN temp
  /\ \E cid \in ContractIds : <<cid, last.key[2]>> \in DOMAIN temp

\* C27: ephemeral namespace isolation and frame. put and del on (ns1, k)
\* change only the entry of (ns1, k): every other pair, (ns2, k) for ns2 # ns1
\* among them, keeps its entry, and get and has answer from the entry of their
\* own pair alone, so the results of get(ns2, k) and has(ns2, k) are as
\* before; get and has leave the map as it was. (Calls that run out of budget
\* are set aside.)
C27_TempIsolation ==
  [][last'.op \in {"temp_get", "temp_put", "temp_del", "temp_has"} =>
       LET ck == last'.key IN
       /\ \A other \in (ContractIds \X TempKeys) \ {ck} :
            EntryOf(temp', other) = EntryOf(temp, other)
       /\ last'.op \in {"temp_get", "temp_has"} => temp' = temp
       /\ (last'.op = "temp_get" /\ last'.res # BudgetExceeded) =>
            EntryOf(temp, ck) = IF last'.res = Ok THEN <<last'.ret>> ELSE <<>>
       /\ (last'.op = "temp_has" /\ last'.res # BudgetExceeded) =>
            EntryOf(temp, ck) # <<>> <=> last'.found]_vars

\* a get returned the value held under (c1, k) although the latest write to
\* (c2, k) was a del, for the same key k
C27_Witness ==
  /\ last.op = "temp_get" /\ last.res = Ok
  /\ \E cid \in ContractIds \ {last.key[1]} :
       /\ Deleted(<<cid, last.key[2]>>)
       /\ <<cid, last.key[2]>> \notin DOMAIN temp
  /\ lastWrite[last.key] = last.ret

\* ----------------------------------------------------------- frame properties
\* C28: in Enforcing mode no call changes the footprint, and every get, put,
\* del or has that fails (with AccessToUnknownEntry,
\* ReadwriteAccessToReadonlyEntry, MissingKeyInGet, GetOnDeletedKey or on the
\* budget; there is no other failure) leaves the map as it was before the call.
C28_EnforcingFailureFrame ==
  [][mode = Enforcing =>
       /\ footprint' = footprint
       /\ last'.res \in {Ok, AccessToUnknownEntry, ReadwriteAccessToReadonlyEntry,
                         MissingKeyInGet, GetOnDeletedKey, BudgetExceeded}
       /\ last'.res # Ok => map' = map]_vars

\* an enforcing put was refused on a key declared ReadOnly; the map still
\* holds the entry it held for the key, not the one the put carried
C28_Witness ==
  /\ mode = Enforcing
  /\ last.op = "put" /\ last.res = ReadwriteAccessToReadonlyEntry
  /\ HasLevel(footprint, last.key, ReadOnly)
  /\ last.key \in DOMAIN map /\ map[last.key] \in Entries \ {last.val}

\* ------------------------------------------------------- Recording invariants
\* C30: recording cache consistency. In every reachable state of a Recording
\* Storage every key of the map is in the footprint, every key the map holds
\* the tombstone for is recorded ReadWrite, and every key of the map recorded
\* ReadOnly holds Some(entry) with the entry the snapshot source has for it.
C30_RecordingCacheConsistent ==
  mode = Recording =>
    \A k \in DOMAIN map :
      /\ k \in DOMAIN footprint
      /\ map[k] = None => footprint[k] = ReadWrite
      /\ footprint[k] = ReadOnly =>
           /\ map[k] \in Entries
           /\ SnapshotGet(snapshot, k).ok
           /\ map[k] = SnapshotGet(snapshot, k).val

\* a recording Storage holds one key loaded from the snapshot at ReadOnly and
\* the other deleted at ReadWrite, after a get failed with deleted-key
C30_Witness ==
  /\ mode = Recording
  /\ last.op = "get" /\ last.res = GetOnDeletedKey
  /\ map[last.key] = None /\ HasLevel(footprint, last.key, ReadWrite)
  /\ \E j \in DOMAIN map :
       HasLevel(footprint, j, ReadOnly) /\ map[j] = snapshot[j]

\* C29: recording footprint exactness. Starting from with_recording_footprint
\* (empty footprint, empty map), as long as no call has run out of budget,
\* after any sequence of calls the keys of the footprint are exactly the keys
\* that get, put, del or has was called on (calls that failed with the
\* source's failure or with GetOnDeletedKey included), and a key is ReadWrite
\* exactly when put or del was called on it.
C29_RecordingFootprintExact ==
  (mode = Recording /\ ~called.starved) =>
    /\ DOMAIN footprint = {k \in Keys : called.keys[k] # "none"}
    /\ \A k \in DOMAIN footprint :
         footprint[k] = ReadWrite <=> called.keys[k] = "written"

\* no call has run out of budget; a get failed with the source's failure on a
\* key that stays ReadOnly, after a del on the other key
C29_Witness ==
  /\ mode = Recording /\ ~called.starved
  /\ last.op = "get" /\ last.res = SourceError
  /\ called.keys[last.key] = "read" /\ HasLevel(footprint, last.key, ReadOnly)
  /\ \E j \in Keys : called.keys[j] = "written" /\ Deleted(j)

\* C31: read-your-writes. In either mode, when the latest successful write to
\* a key is a put of v (a del on the key or writes to other keys may have gone
\* before or between), a get of the key that is not cut short by the budget
\* returns v, and a has of the key that is not cut short by the budget returns
\* true.
C31_ReadYourWrites ==
  [][(/\ last'.op \in {"get", "has"}
      /\ last'.key \in DOMAIN lastWrite
      /\ lastWrite[last'.key] \in Entries
      /\ last'.res # BudgetExceeded)
       => /\ last'.res = Ok
          /\ last'.op = "get" => last'.ret = lastWrite[last'.key]
          /\ last'.op = "has" => last'.found]_vars

\* a recording Storage answered a get with the entry put last, which is not
\* the snapshot's; the key was deleted before that put, and the other key was
\* written after it
C31_Witness ==
  /\ mode = Recording
  /\ last.op = "get" /\ last.res = Ok
  /\ last.key \in DOMAIN lastWrite /\ last.ret = lastWrite[last.key]
  /\ last.key \in DOMAIN snapshot /\ snapshot[last.key] # last.ret
  /\ last.key \in writes.deleted /\ last.key \in writes.passed

\* the Footprint that a set of recorded accesses (made) leaves of the Footprint
\* start: every key held or asked for, at ReadWrite where it was held or asked
\* for at ReadWrite, at ReadOnly elsewhere
MaxLevels(start, made) ==
  [k \in DOMAIN start \cup {r[1] : r \in made} |->
     IF HasLevel(start, k, ReadWrite) \/ <<k, ReadWrite>> \in made
     THEN ReadWrite ELSE ReadOnly]

\* C32: record_access is idempotent and order-independent. As long as every
\* record_access so far has returned Ok, the footprint is the one fixed by the
\* starting footprint and the set of accesses asked for alone, each key at the
\* highest level asked for or held at the start: neither the order of the
\* calls nor their repetition shows in it. A call that repeats the call before
\* it leaves the footprint as it was.
C32_RecordAccessOrderFree ==
  [][(last'.op = "record_access" /\ ~asks'.failed) =>
       /\ footprint' = MaxLevels(asks'.start, asks'.made)
       /\ (last.op = "record_access" /\ last.key = last'.key /\ last.ty = last'.ty)
            => footprint' = footprint]_vars

\* a key held ReadOnly at the start was asked for at ReadWrite and at ReadOnly,
\* the last call asking for ReadOnly, and stands at ReadWrite; a key that the
\* start did not hold was recorded as well; every call returned Ok
C32_Witness ==
  /\ ~asks.failed
  /\ last.op = "record_access" /\ last.ty = ReadOnly
  /\ HasLevel(asks.start, last.key, ReadOnly)
  /\ HasLevel(footprint, last.key, ReadWrite)
  /\ {<<last.key, ReadOnly>>, <<last.key, ReadWrite>>} \subseteq asks.made
  /\ \E j \in DOMAIN footprint \ DOMAIN asks.start : <<j, ReadOnly>> \in asks.made

====
